---- MODULE Spec2Model ----
(***************************************************************************)
(* Closed-loop environmental controller (eliamgt/MA4822-Project).          *)
(*                                                                         *)
(* Main.py drives a time-stepping loop: the plant model of Process_Data.py *)
(* updates temperature, humidity and moisture from the actuator actions of *)
(* the previous step, the noisy readings are smoothed, and the three fuzzy *)
(* controllers of Decision_Making.py compute the actions of the step.      *)
(*                                                                         *)
(* Numbers.  The program computes in floating point.  Here every physical  *)
(* value (temperature, humidity, moisture, noise, action level) is a       *)
(* fixed-point integer counting hundredths (Scale), membership degrees     *)
(* count 1/Degree, and every division rounds to the nearest unit (Div).    *)
(* Arrays keep the 0-based indices of the source.                          *)
(***************************************************************************)
EXTENDS Integers, Sequences, FiniteSets, TLC

VARIABLES
    pc,                   \* position of main(): "plant", "control", "report", "done", or
                          \* the exception that ended it: "ValueError", "IndexError";
                          \* of a single function call: "idle", "returned"
    i,                    \* the loop variable of main() (time_stamp)
    temperature_base, humidity_base, moisture_base,
    temperature_noise, humidity_noise, moisture_noise,
    temperature_updated, humidity_updated, moisture_updated,
    dehumidifier_action, ventilation_action, heating_action,
    branch,               \* per step: "pending", then "computed" when the controllers
                          \* were evaluated, "held" when the actions were copied forward
    call                  \* the arguments and the result of a single function call

vars == <<pc, i, temperature_base, humidity_base, moisture_base,
          temperature_noise, humidity_noise, moisture_noise,
          temperature_updated, humidity_updated, moisture_updated,
          dehumidifier_action, ventilation_action, heating_action,
          branch, call>>

series == <<temperature_base, humidity_base, moisture_base,
            temperature_noise, humidity_noise, moisture_noise>>

updated == <<temperature_updated, humidity_updated, moisture_updated>>

actions == <<dehumidifier_action, ventilation_action, heating_action>>

-----------------------------------------------------------------------------
(* Fixed-point arithmetic *)

\* Resolution of a value: one unit is 1/Scale (0.05 is 5, 25 degrees is 2500).
Scale == 100

\* Resolution of a membership degree: full membership 1.0 is Degree.
Degree == 10000

\* a / b rounded to the nearest integer (b > 0).
Div(a, b) == (2 * a + b) \div (2 * b)

Abs(x) == IF x < 0 THEN -x ELSE x

Min(a, b) == IF a < b THEN a ELSE b

Max(a, b) == IF a > b THEN a ELSE b

\* sum of f[k] for k in lo..hi
RECURSIVE SumRange(_, _, _)
SumRange(f, lo, hi) == IF lo > hi THEN 0 ELSE f[lo] + SumRange(f, lo + 1, hi)

-----------------------------------------------------------------------------
(* Configuration parameters of Main.py, in hundredths *)

temperature_min_limit == 500
temperature_max_limit == 2500
temperature_decay_rate == 5
temperature_action_factor == 5

humidity_min_limit == 0
humidity_decay_rate == 5
humidity_action_factor == 3

moisture_min_limit == 0
moisture_decay_rate == 5
moisture_action_factor == 5

base_moisture == 2500

-----------------------------------------------------------------------------
(* Process_Data.py.  The parameters humidity_base and moisture_base are written
   hum_base and moist_base: main() has variables of the same names. *)

\* window_size=5, the default of smooth_data
window_size == 5

\* smooth_data with a window that starts one sample too early.
smooth_data_off_by_one(current_timestamp, data) ==
    LET start_index == Max(0, current_timestamp - window_size)
        end_index   == current_timestamp + 1
    IN  Div(SumRange(data, start_index, end_index - 1), end_index - start_index)

\* smooth_data(current_timestamp, data, window_size): the mean of the slice
\* data[start_index:end_index].
smooth_data(current_timestamp, data) ==
    LET start_index == Max(0, current_timestamp - window_size + 1)
        end_index   == current_timestamp + 1
    IN  Div(SumRange(data, start_index, end_index - 1), end_index - start_index)

\* intensity = action_level / 10 is kept as the action level itself: the unit
\* of an intensity is 1/(10*Scale).
IntensityUnit == 10 * Scale

\* update_temperature whose heating moves the temperature toward min_limit.
update_temperature_toward_min(time_stamp, temp_base, modified_temp, action_level_heater, min_limit, max_limit, decay_rate, action_factor) ==
    LET previous_modified_temp == modified_temp[time_stamp - 1]
    IN  previous_modified_temp
          - Div((previous_modified_temp - min_limit) * Abs(action_level_heater) * action_factor,
                IntensityUnit * Scale)

\* update_temperature whose decay is not stopped at the base temperature.
update_temperature_no_clamp(time_stamp, temp_base, modified_temp, action_level_heater, min_limit, max_limit, decay_rate, action_factor) ==
    LET current_temp_base      == temp_base[time_stamp]
        previous_modified_temp == modified_temp[time_stamp - 1]
        intensity              == action_level_heater
    IN  IF intensity > 0
        THEN previous_modified_temp
               + Div((max_limit - previous_modified_temp) * intensity * action_factor,
                     IntensityUnit * Scale)
        ELSE IF intensity < 0
        THEN previous_modified_temp
               - Div((previous_modified_temp - min_limit) * Abs(intensity) * action_factor,
                     IntensityUnit * Scale)
        ELSE IF previous_modified_temp > current_temp_base
        THEN previous_modified_temp - decay_rate
        ELSE previous_modified_temp + decay_rate

\* update_temperature that leaves the temperature where it is when there is no action.
update_temperature_without_decay(time_stamp, temp_base, modified_temp, action_level_heater, min_limit, max_limit, decay_rate, action_factor) ==
    LET previous_modified_temp == modified_temp[time_stamp - 1]
        intensity              == action_level_heater
    IN  IF intensity > 0
        THEN previous_modified_temp
               + Div((max_limit - previous_modified_temp) * intensity * action_factor,
                     IntensityUnit * Scale)
        ELSE IF intensity < 0
        THEN previous_modified_temp
               - Div((previous_modified_temp - min_limit) * Abs(intensity) * action_factor,
                     IntensityUnit * Scale)
        ELSE previous_modified_temp

\* update_temperature whose heating step does not shrink near max_limit.
update_temperature_unsaturated(time_stamp, temp_base, modified_temp, action_level_heater, min_limit, max_limit, decay_rate, action_factor) ==
    LET current_temp_base      == temp_base[time_stamp]
        previous_modified_temp == modified_temp[time_stamp - 1]
        intensity              == action_level_heater
    IN  IF intensity > 0
        THEN previous_modified_temp
               + Div((max_limit - min_limit) * intensity * action_factor,
                     IntensityUnit * Scale)
        ELSE IF intensity < 0
        THEN previous_modified_temp
               - Div((previous_modified_temp - min_limit) * Abs(intensity) * action_factor,
                     IntensityUnit * Scale)
        ELSE IF previous_modified_temp > current_temp_base
        THEN Max(current_temp_base, previous_modified_temp - decay_rate)
        ELSE Min(current_temp_base, previous_modified_temp + decay_rate)

\* update_temperature: heating moves toward max_limit, cooling toward min_limit, no
\* action decays by decay_rate toward the base temperature and stops there.
update_temperature(time_stamp, temp_base, modified_temp, action_level_heater, min_limit, max_limit, decay_rate, action_factor) ==
    LET current_temp_base      == temp_base[time_stamp]
        previous_modified_temp == modified_temp[time_stamp - 1]
        intensity              == action_level_heater
    IN  IF intensity > 0
        THEN previous_modified_temp
               + Div((max_limit - previous_modified_temp) * intensity * action_factor,
                     IntensityUnit * Scale)
        ELSE IF intensity < 0
        THEN previous_modified_temp
               - Div((previous_modified_temp - min_limit) * Abs(intensity) * action_factor,
                     IntensityUnit * Scale)
        ELSE IF previous_modified_temp > current_temp_base
        THEN Max(current_temp_base, previous_modified_temp - decay_rate)
        ELSE Min(current_temp_base, previous_modified_temp + decay_rate)

\* update_humidity whose branch looks at the dehumidifier action alone.
update_humidity_dehumidifier_only(time_stamp, hum_base, modified_humidity, action_level_dehumidifier, action_level_ventilation, min_limit, decay_rate, action_factor) ==
    LET current_humidity_base      == hum_base[time_stamp]
        previous_modified_humidity == modified_humidity[time_stamp - 1]
        intensity                  == action_level_dehumidifier + action_level_ventilation
    IN  IF action_level_dehumidifier > 0
        THEN previous_modified_humidity
               - Div((previous_modified_humidity - min_limit) * intensity * action_factor,
                     IntensityUnit * Scale)
        ELSE previous_modified_humidity
               + Div((current_humidity_base - previous_modified_humidity) * decay_rate, Scale)

\* update_humidity: a positive sum of the two actions moves toward min_limit, any
\* other sum pulls the humidity toward the base humidity by the fraction decay_rate.
update_humidity(time_stamp, hum_base, modified_humidity, action_level_dehumidifier, action_level_ventilation, min_limit, decay_rate, action_factor) ==
    LET current_humidity_base      == hum_base[time_stamp]
        previous_modified_humidity == modified_humidity[time_stamp - 1]
        intensity                  == action_level_dehumidifier + action_level_ventilation
    IN  IF intensity > 0
        THEN previous_modified_humidity
               - Div((previous_modified_humidity - min_limit) * intensity * action_factor,
                     IntensityUnit * Scale)
        ELSE previous_modified_humidity
               + Div((current_humidity_base - previous_modified_humidity) * decay_rate, Scale)

\* update_moisture that decays by a fixed step, as the temperature does.
update_moisture_fixed_step(time_stamp, moist_base, modified_moisture, action_level_ventilation, min_limit, decay_rate, action_factor) ==
    LET current_moisture_base      == moist_base[time_stamp]
        previous_modified_moisture == modified_moisture[time_stamp - 1]
        intensity                  == action_level_ventilation
    IN  IF intensity > 0
        THEN previous_modified_moisture
               - Div((previous_modified_moisture - min_limit) * intensity * action_factor,
                     IntensityUnit * Scale)
        ELSE IF previous_modified_moisture > current_moisture_base
        THEN Max(current_moisture_base, previous_modified_moisture - decay_rate)
        ELSE Min(current_moisture_base, previous_modified_moisture + decay_rate)

\* update_moisture: the law of update_humidity, with the ventilation action alone.
update_moisture(time_stamp, moist_base, modified_moisture, action_level_ventilation, min_limit, decay_rate, action_factor) ==
    LET current_moisture_base      == moist_base[time_stamp]
        previous_modified_moisture == modified_moisture[time_stamp - 1]
        intensity                  == action_level_ventilation
    IN  IF intensity > 0
        THEN previous_modified_moisture
               - Div((previous_modified_moisture - min_limit) * intensity * action_factor,
                     IntensityUnit * Scale)
        ELSE previous_modified_moisture
               + Div((current_moisture_base - previous_modified_moisture) * decay_rate, Scale)

-----------------------------------------------------------------------------
(* The fuzzy inference engine that Decision_Making.py drives: triangular membership,
   rule firing by minimum, aggregation by maximum, centroid defuzzification over the
   output grid.  Breakpoints and readings are in hundredths, degrees in 1/Degree. *)

\* Degree of membership of x in the triangle abc = <<a, b, c>>, a <= b <= c: a ramp up
\* on [a, b], a ramp down on [b, c], zero outside, full membership at b.
trimf(x, abc) ==
    LET a == abc[1]
        b == abc[2]
        c == abc[3]
    IN  IF x = b THEN Degree
        ELSE IF a < x /\ x < b THEN Div((x - a) * Degree, b - a)
        ELSE IF b < x /\ x < c THEN Div((c - x) * Degree, c - b)
        ELSE 0

\* A reading given to a simulation is clipped to the universe of its antecedent
\* (ControlSystemSimulation is created with its default, clip_to_bounds).
clip_to_bounds(value, universe) == Max(universe[1], Min(universe[2], value))

MinOf(S) == CHOOSE x \in S : \A y \in S : x <= y

MaxOf(S) == CHOOSE x \in S : \A y \in S : x >= y

\* Firing strength of a rule: the minimum of the degrees of its antecedent clauses,
\* clause k being about input k.
firing_strength(system, rule, inputs) ==
    MinOf({ trimf(clip_to_bounds(inputs[k], system.antecedents[k].universe),
                  system.antecedents[k].terms[rule.if[k]]) : k \in 1..Len(rule.if) })

\* Aggregated degree at the grid point x of the output universe: the maximum over
\* the rules of min(firing strength, consequent membership at x).
aggregated_degree(system, strength, x) ==
    MaxOf({ Min(strength[r], trimf(x * Scale, system.consequent.terms[system.rules[r].then])) : r \in 1..Len(system.rules) })

\* The firing strengths of the first n rules, in the order of the rules.
RECURSIVE firing_strengths(_, _, _)
firing_strengths(system, inputs, n) == IF n = 0 THEN <<>> ELSE Append(firing_strengths(system, inputs, n - 1), firing_strength(system, system.rules[n], inputs))

\* The element of a set of one element.  The({ e(v) : v \in {value} }) is e(value)
\* with value evaluated once.
The(S) == CHOOSE x \in S : TRUE

\* <<moment + sum of x * aggregated degree at x, area + sum of the aggregated
\* degrees>> over the grid points in S.
RECURSIVE centroid_sums(_, _, _, _, _)
centroid_sums(system, strength, S, moment, area) ==
    IF S = {} THEN <<moment, area>>
    ELSE The({ The({ centroid_sums(system, strength, S \ {x}, moment + x * w, area + w)
                     : w \in {aggregated_degree(system, strength, x)} })
               : x \in {MaxOf(S)} })

\* compute(): the centroid of the aggregated output set, in hundredths; undefined
\* (an exception in the program) when no rule fires anywhere on the grid.
compute(system, inputs) ==
    The({ The({ IF sums[2] = 0
                THEN [defined |-> FALSE, value |-> 0]
                ELSE [defined |-> TRUE, value |-> Div(sums[1] * Scale, sums[2])]
                : sums \in {centroid_sums(system, strength, system.consequent.universe, 0, 0)} })
          : strength \in {firing_strengths(system, inputs, Len(system.rules))} })

-----------------------------------------------------------------------------
(* Decision_Making.py: the three controllers *)

\* The dehumidifier's control system with an output universe and a "high" set that
\* reach up to 20.
DehumidifierSystemUpTo20 ==
    [ antecedents |-> << [ universe |-> <<0, 10000>>,
                           terms |-> [ low    |-> <<0, 0, 5000>>,
                                       medium |-> <<4500, 6000, 7500>>,
                                       high   |-> <<7000, 10000, 10000>> ] ] >>,
      consequent  |-> [ universe |-> -10..20,
                        terms |-> [ off  |-> <<-1000, -1000, 100>>,
                                    low  |-> <<0, 150, 300>>,
                                    high |-> <<200, 2000, 2000>> ] ],
      rules       |-> << [ if |-> <<"high">>,   then |-> "high" ],
                         [ if |-> <<"medium">>, then |-> "low" ],
                         [ if |-> <<"low">>,    then |-> "off" ] >> ]

\* The dehumidifier's control system with the consequents of rule1 and rule3 exchanged.
DehumidifierSystemExchanged ==
    [ antecedents |-> << [ universe |-> <<0, 10000>>,
                           terms |-> [ low    |-> <<0, 0, 5000>>,
                                       medium |-> <<4500, 6000, 7500>>,
                                       high   |-> <<7000, 10000, 10000>> ] ] >>,
      consequent  |-> [ universe |-> -10..10,
                        terms |-> [ off  |-> <<-1000, -1000, 100>>,
                                    low  |-> <<0, 150, 300>>,
                                    high |-> <<200, 1000, 1000>> ] ],
      rules       |-> << [ if |-> <<"high">>,   then |-> "off" ],
                         [ if |-> <<"medium">>, then |-> "low" ],
                         [ if |-> <<"low">>,    then |-> "high" ] >> ]

\* The control system of dehumidifier_controller.
DehumidifierSystem ==
    [ antecedents |-> << [ universe |-> <<0, 10000>>,
                           terms |-> [ low    |-> <<0, 0, 5000>>,
                                       medium |-> <<4500, 6000, 7500>>,
                                       high   |-> <<7000, 10000, 10000>> ] ] >>,
      consequent  |-> [ universe |-> -10..10,
                        terms |-> [ off  |-> <<-1000, -1000, 100>>,
                                    low  |-> <<0, 150, 300>>,
                                    high |-> <<200, 1000, 1000>> ] ],
      rules       |-> << [ if |-> <<"high">>,   then |-> "high" ],
                         [ if |-> <<"medium">>, then |-> "low" ],
                         [ if |-> <<"low">>,    then |-> "off" ] >> ]

\* The control system of ventilation_controller; the rules are in the order given
\* to ControlSystem.
VentilationSystem ==
    [ antecedents |-> << [ universe |-> <<0, 10000>>,
                           terms |-> [ low    |-> <<0, 0, 6000>>,
                                       medium |-> <<5500, 6500, 7500>>,
                                       high   |-> <<7000, 10000, 10000>> ] ],
                         [ universe |-> <<0, 10000>>,
                           terms |-> [ low    |-> <<0, 0, 1500>>,
                                       medium |-> <<1000, 1500, 2000>>,
                                       high   |-> <<1500, 10000, 10000>> ] ] >>,
      consequent  |-> [ universe |-> -10..10,
                        terms |-> [ off  |-> <<-1000, -1000, 100>>,
                                    low  |-> <<0, 150, 300>>,
                                    high |-> <<200, 1000, 1000>> ] ],
      rules       |-> << [ if |-> <<"high", "high">>,     then |-> "high" ],
                         [ if |-> <<"high", "medium">>,   then |-> "high" ],
                         [ if |-> <<"high", "low">>,      then |-> "high" ],
                         [ if |-> <<"medium", "high">>,   then |-> "high" ],
                         [ if |-> <<"medium", "medium">>, then |-> "low" ],
                         [ if |-> <<"low", "high">>,      then |-> "high" ],
                         [ if |-> <<"medium", "low">>,    then |-> "low" ],
                         [ if |-> <<"low", "medium">>,    then |-> "low" ],
                         [ if |-> <<"low", "low">>,       then |-> "off" ] >> ]

\* The heating control system with a "medium" set that starts at 19.5: no set
\* covers the temperatures from 19 to 19.5.
HeatingSystemWithGap ==
    [ antecedents |-> << [ universe |-> <<0, 3000>>,
                           terms |-> [ cold   |-> <<0, 0, 1900>>,
                                       medium |-> <<1950, 2000, 2200>>,
                                       hot    |-> <<2100, 3000, 3000>> ] ] >>,
      consequent  |-> [ universe |-> -10..10,
                        terms |-> [ cool |-> <<-1000, -1000, 0>>,
                                    off  |-> <<-500, 0, 500>>,
                                    on   |-> <<0, 1000, 1000>> ] ],
      rules       |-> << [ if |-> <<"hot">>,    then |-> "cool" ],
                         [ if |-> <<"medium">>, then |-> "off" ],
                         [ if |-> <<"cold">>,   then |-> "on" ] >> ]

\* The control system of heating_controller.
HeatingSystem ==
    [ antecedents |-> << [ universe |-> <<0, 3000>>,
                           terms |-> [ cold   |-> <<0, 0, 1900>>,
                                       medium |-> <<1800, 2000, 2200>>,
                                       hot    |-> <<2100, 3000, 3000>> ] ] >>,
      consequent  |-> [ universe |-> -10..10,
                        terms |-> [ cool |-> <<-1000, -1000, 0>>,
                                    off  |-> <<-500, 0, 500>>,
                                    on   |-> <<0, 1000, 1000>> ] ],
      rules       |-> << [ if |-> <<"hot">>,    then |-> "cool" ],
                         [ if |-> <<"medium">>, then |-> "off" ],
                         [ if |-> <<"cold">>,   then |-> "on" ] >> ]

\* sensdata = [temperature, humidity, moisture], indexed from 0 as in the source.
\* Each controller builds its variables, rules and simulation anew at every call.
dehumidifier_controller(sensdata) == compute(DehumidifierSystem, <<sensdata[1]>>)

\* ventilation_controller that ventilates less by what the dehumidifier already does
\* at the current step.
ventilation_controller_after_dehumidifier(sensdata) ==
    LET v == compute(VentilationSystem, <<sensdata[1], sensdata[2]>>)
    IN  [defined |-> v.defined, value |-> Max(-10 * Scale, v.value - dehumidifier_action[i])]

ventilation_controller(sensdata) == compute(VentilationSystem, <<sensdata[1], sensdata[2]>>)

heating_controller(sensdata) == compute(HeatingSystem, <<sensdata[0]>>)

-----------------------------------------------------------------------------
(* Main.py: main() *)

\* No single function call was made.
NoCall == [fn |-> "none"]

\* len(time): the number of time steps of a run (721 in the program: 24 hours at a
\* resolution of 2 minutes).  Long enough for the moisture to come down from
\* base_moisture into its comfort band.
NumSteps == 8

Steps == 0..NumSteps - 1

\* A series that starts at `start` and changes by `slope` per step: a stretch of the
\* sinusoidal base signals of Signal_Models.py.
Ramp(start, slope) == [t \in Steps |-> start + slope * t]

\* temperature_base = base_temp + amplitude * sin(...): around 15 and near the crest 20.
TemperatureBases == { Ramp(1500, 4), Ramp(1988, 4), Ramp(2000, 0) }

\* humidity_base = base_humidity + amplitude * sin(...): between 60 and 80.
HumidityBases == { Ramp(6000, 0), Ramp(7000, 9), Ramp(8000, 0) }

\* moisture_base = np.full_like(time, base_moisture)
MoistureBases == { Ramp(base_moisture, 0) }

\* A noise series: one sample at the even steps, one at the odd steps.
Noise(even, odd) == [t \in Steps |-> IF t % 2 = 0 THEN even ELSE odd]

NoiseSeries(samples) == { Noise(even, odd) : even \in samples, odd \in samples }

TemperatureNoises == NoiseSeries({0, 300})

\* a spike of 15 on top of the normal noise
HumidityNoises == NoiseSeries({0, 2500})

MoistureNoises == NoiseSeries({-300, 0})

\* np.zeros_like(time)
zeros_like == [t \in Steps |-> 0]

Init ==
    /\ pc = "plant"
    /\ i = 0
    /\ call = NoCall
    /\ temperature_base \in TemperatureBases
    /\ humidity_base \in HumidityBases
    /\ moisture_base \in MoistureBases
    /\ temperature_noise \in TemperatureNoises
    /\ humidity_noise \in HumidityNoises
    /\ moisture_noise \in MoistureNoises
    /\ temperature_updated = temperature_base
    /\ humidity_updated = humidity_base
    /\ moisture_updated = moisture_base
    /\ dehumidifier_action = zeros_like
    /\ ventilation_action = zeros_like
    /\ heating_action = zeros_like
    /\ branch = [t \in Steps |-> "pending"]

\* The three plant updates of step t, from the actions recorded at the index `of`.
plant_update_from(t, of) ==
    [ temperature |-> update_temperature(
          t, temperature_base, temperature_updated, heating_action[of],
          temperature_min_limit, temperature_max_limit,
          temperature_decay_rate, temperature_action_factor),
      humidity    |-> update_humidity(
          t, humidity_base, humidity_updated, dehumidifier_action[of], ventilation_action[of],
          humidity_min_limit, humidity_decay_rate, humidity_action_factor),
      moisture    |-> update_moisture(
          t, moisture_base, moisture_updated, ventilation_action[of],
          moisture_min_limit, moisture_decay_rate, moisture_action_factor) ]

\* The updates of step t with the noisy arrays given as the previous values.
plant_update_from_readings(t) ==
    [ temperature |-> update_temperature(
          t, temperature_base,
          [k \in Steps |-> temperature_updated[k] + temperature_noise[k]], heating_action[t - 1],
          temperature_min_limit, temperature_max_limit,
          temperature_decay_rate, temperature_action_factor),
      humidity    |-> update_humidity(
          t, humidity_base,
          [k \in Steps |-> humidity_updated[k] + humidity_noise[k]],
          dehumidifier_action[t - 1], ventilation_action[t - 1],
          humidity_min_limit, humidity_decay_rate, humidity_action_factor),
      moisture    |-> update_moisture(
          t, moisture_base,
          [k \in Steps |-> moisture_updated[k] + moisture_noise[k]], ventilation_action[t - 1],
          moisture_min_limit, moisture_decay_rate, moisture_action_factor) ]

\* The updates of step t from the actions at t itself.
plant_update_without_lag(t) == plant_update_from(t, t)

\* The updates of step t use the actions recorded at t - 1.
plant_update(t) == plant_update_from(t, t - 1)

\* Top of the loop body: for time_stamp > 0 the plant model updates the three values.
PlantStep ==
    /\ pc = "plant"
    /\ IF i > 0
       THEN /\ temperature_updated' = [temperature_updated EXCEPT ![i] = plant_update(i).temperature]
            /\ humidity_updated' = [humidity_updated EXCEPT ![i] = plant_update(i).humidity]
            /\ moisture_updated' = [moisture_updated EXCEPT ![i] = plant_update(i).moisture]
       ELSE UNCHANGED updated
    /\ pc' = "control"
    /\ UNCHANGED <<i, series, actions, branch, call>>

\* The smoothed readings of step t: the noise is added to the whole updated arrays
\* and each noisy array is smoothed at t.
sensdata_at(t) ==
    LET noisy_temperature == [k \in Steps |-> temperature_updated[k] + temperature_noise[k]]
        noisy_humidity    == [k \in Steps |-> humidity_updated[k] + humidity_noise[k]]
        noisy_moisture    == [k \in Steps |-> moisture_updated[k] + moisture_noise[k]]
        temperature       == smooth_data(t, noisy_temperature)
        humidity          == smooth_data(t, noisy_humidity)
        moisture          == smooth_data(t, noisy_moisture)
    IN  [k \in 0..2 |-> CASE k = 0 -> temperature [] k = 1 -> humidity [] OTHER -> moisture]

\* A loop over range(len(time) - 1).
in_range_but_last(k) == k < NumSteps - 1

\* for i in range(len(time)): k is a value the loop variable takes.
in_range(k) == k < NumSteps

\* An update interval of 2.
recompute_at_even_steps(t) == t % 2 = 0

\* if i % 1 == 0: the controllers are evaluated at step t.
recompute_at(t) == t % 1 = 0

\* Rest of the loop body: readings, then the actions of the step.  A controller whose
\* output is undefined raises, and the exception ends main(); the assignments made
\* before it stay.
ControlStep ==
    /\ pc = "control"
    /\ \E sensdata \in {sensdata_at(i)} :
       \E d \in {dehumidifier_controller(sensdata)}, v \in {ventilation_controller(sensdata)}, h \in {heating_controller(sensdata)} :
       LET next == IF in_range(i + 1) THEN "plant" ELSE "report"
       IN  IF recompute_at(i)
           THEN /\ dehumidifier_action' =
                      IF d.defined THEN [dehumidifier_action EXCEPT ![i] = d.value]
                      ELSE dehumidifier_action
                /\ ventilation_action' =
                      IF d.defined /\ v.defined THEN [ventilation_action EXCEPT ![i] = v.value]
                      ELSE ventilation_action
                /\ heating_action' =
                      IF d.defined /\ v.defined /\ h.defined
                      THEN [heating_action EXCEPT ![i] = h.value]
                      ELSE heating_action
                /\ IF d.defined /\ v.defined /\ h.defined
                   THEN /\ branch' = [branch EXCEPT ![i] = "computed"]
                        /\ i' = i + 1
                        /\ pc' = next
                   ELSE /\ pc' = "ValueError"
                        /\ UNCHANGED <<i, branch>>
           ELSE /\ dehumidifier_action' = [dehumidifier_action EXCEPT ![i] = dehumidifier_action[i - 1]]
                /\ ventilation_action' = [ventilation_action EXCEPT ![i] = ventilation_action[i - 1]]
                /\ heating_action' = [heating_action EXCEPT ![i] = heating_action[i - 1]]
                /\ branch' = [branch EXCEPT ![i] = "held"]
                /\ i' = i + 1
                /\ pc' = next
    /\ UNCHANGED <<series, updated, call>>

\* After the loop: the time steps at which each updated value is in its comfort band
\* (temperature in [18, 22], humidity in [40, 60], moisture <= 20).
rise_temperature == { t \in Steps : temperature_updated[t] <= 2200 /\ temperature_updated[t] >= 1800 }

rise_humidity == { t \in Steps : humidity_updated[t] <= 6000 /\ humidity_updated[t] >= 4000 }

rise_moisture == { t \in Steps : moisture_updated[t] <= 2000 }

\* Plots, then rise times and stability: rise_X[0] of an empty selection raises.
Report ==
    /\ pc = "report"
    /\ pc' = IF rise_temperature = {} \/ rise_humidity = {} \/ rise_moisture = {}
             THEN "IndexError"
             ELSE "done"
    /\ UNCHANGED <<i, series, updated, actions, branch, call>>

Next == PlantStep \/ ControlStep \/ Report

Spec == Init /\ [][Next]_vars

\* main() is one sequential thread that nothing blocks: while a step of it is
\* possible, a step is taken.
SpecFair == Spec /\ WF_vars(Next)

-----------------------------------------------------------------------------
(* Runs of the loop of main() with the actuators pinned: the three action series are
   given, and the controllers' results do not replace them. *)

\* Pinned levels of an actuator: full negative, none, full positive.
PinnedLevels == {-10 * Scale, 0, 10 * Scale}

\* The base temperatures of a run, and one on the falling side of the sinusoid.
PinnedTemperatureBases == TemperatureBases \cup { Ramp(2000, -4) }

\* Pinned action series: one level at the even steps, one at the odd steps.
PinnedActions == NoiseSeries(PinnedLevels)

InitPinned ==
    /\ pc = "plant"
    /\ i = 0
    /\ call = [fn |-> "pinned"]
    /\ temperature_base \in PinnedTemperatureBases
    /\ humidity_base \in HumidityBases
    /\ moisture_base \in MoistureBases
    /\ temperature_noise = zeros_like
    /\ humidity_noise = zeros_like
    /\ moisture_noise = zeros_like
    /\ temperature_updated = temperature_base
    /\ humidity_updated = humidity_base
    /\ moisture_updated = moisture_base
    /\ dehumidifier_action \in PinnedActions
    /\ ventilation_action \in PinnedActions
    /\ heating_action \in PinnedActions
    /\ branch = [t \in Steps |-> "pending"]

\* Rest of the loop body with pinned actuators: the actions of the step stay as given.
PinnedControlStep ==
    /\ pc = "control"
    /\ branch' = [branch EXCEPT ![i] = "pinned"]
    /\ i' = i + 1
    /\ pc' = IF in_range(i + 1) THEN "plant" ELSE "report"
    /\ UNCHANGED <<series, updated, actions, call>>

NextPinned == PlantStep \/ PinnedControlStep \/ Report

SpecPinned == InitPinned /\ [][NextPinned]_vars

-----------------------------------------------------------------------------
(* Runs of main() in which the independent work of a time step is done in any order:
   the three plant updates of the step in any of their 6 orders, then the three
   controllers in any of their 6 orders.  call.done holds the work of the current
   stage that is done. *)

Stage(done) == [fn |-> "stage", done |-> done]

Variables == {"temperature", "humidity", "moisture"}

Controllers == {"dehumidifier", "ventilation", "heating"}

InitAnyOrder ==
    /\ pc = "plant"
    /\ i = 0
    /\ call = Stage({})
    /\ temperature_base \in TemperatureBases
    /\ humidity_base \in HumidityBases
    /\ moisture_base \in MoistureBases
    /\ temperature_noise \in TemperatureNoises
    /\ humidity_noise = Noise(0, 2500)
    /\ moisture_noise = Noise(-300, 0)
    /\ temperature_updated = temperature_base
    /\ humidity_updated = humidity_base
    /\ moisture_updated = moisture_base
    /\ dehumidifier_action = zeros_like
    /\ ventilation_action = zeros_like
    /\ heating_action = zeros_like
    /\ branch = [t \in Steps |-> "pending"]

\* One plant update of the step is done; the stage ends with the third.
PlantDone(variable) ==
    /\ pc = "plant"
    /\ variable \notin call.done
    /\ IF call.done \cup {variable} = Variables
       THEN pc' = "control" /\ call' = Stage({})
       ELSE pc' = pc /\ call' = Stage(call.done \cup {variable})
    /\ UNCHANGED <<i, series, actions, branch>>

UpdateTemperature ==
    /\ PlantDone("temperature")
    /\ temperature_updated' =
          IF i > 0 THEN [temperature_updated EXCEPT ![i] = plant_update(i).temperature]
          ELSE temperature_updated
    /\ UNCHANGED <<humidity_updated, moisture_updated>>

UpdateHumidity ==
    /\ PlantDone("humidity")
    /\ humidity_updated' =
          IF i > 0 THEN [humidity_updated EXCEPT ![i] = plant_update(i).humidity]
          ELSE humidity_updated
    /\ UNCHANGED <<temperature_updated, moisture_updated>>

UpdateMoisture ==
    /\ PlantDone("moisture")
    /\ moisture_updated' =
          IF i > 0 THEN [moisture_updated EXCEPT ![i] = plant_update(i).moisture]
          ELSE moisture_updated
    /\ UNCHANGED <<temperature_updated, humidity_updated>>

\* One controller of the step is evaluated; the stage and the step end with the
\* third.  An undefined output raises and ends main().
ControllerDone(controller, result) ==
    /\ pc = "control"
    /\ controller \notin call.done
    /\ IF ~result.defined
       THEN pc' = "ValueError" /\ UNCHANGED <<i, branch, call>>
       ELSE IF call.done \cup {controller} = Controllers
       THEN /\ branch' = [branch EXCEPT ![i] = "computed"]
            /\ i' = i + 1
            /\ pc' = IF in_range(i + 1) THEN "plant" ELSE "report"
            /\ call' = Stage({})
       ELSE /\ call' = Stage(call.done \cup {controller})
            /\ UNCHANGED <<pc, i, branch>>
    /\ UNCHANGED <<series, updated>>

EvaluateDehumidifier ==
    /\ pc = "control"
    /\ \E d \in {dehumidifier_controller(sensdata_at(i))} :
        /\ ControllerDone("dehumidifier", d)
        /\ dehumidifier_action' =
              IF d.defined THEN [dehumidifier_action EXCEPT ![i] = d.value]
              ELSE dehumidifier_action
        /\ UNCHANGED <<ventilation_action, heating_action>>

EvaluateVentilation ==
    /\ pc = "control"
    /\ \E v \in {ventilation_controller(sensdata_at(i))} :
        /\ ControllerDone("ventilation", v)
        /\ ventilation_action' =
              IF v.defined THEN [ventilation_action EXCEPT ![i] = v.value]
              ELSE ventilation_action
        /\ UNCHANGED <<dehumidifier_action, heating_action>>

EvaluateHeating ==
    /\ pc = "control"
    /\ \E h \in {heating_controller(sensdata_at(i))} :
        /\ ControllerDone("heating", h)
        /\ heating_action' =
              IF h.defined THEN [heating_action EXCEPT ![i] = h.value]
              ELSE heating_action
        /\ UNCHANGED <<dehumidifier_action, ventilation_action>>

\* The report of a run of this kind: call is left as it is.
NextAnyOrder ==
    \/ UpdateTemperature \/ UpdateHumidity \/ UpdateMoisture
    \/ EvaluateDehumidifier \/ EvaluateVentilation \/ EvaluateHeating
    \/ Report

SpecAnyOrder == InitAnyOrder /\ [][NextAnyOrder]_vars

-----------------------------------------------------------------------------
(* Single calls of the plant model: the arguments are drawn from bounded sets *)

\* The driver's variables, at rest while single functions are called.
DriverAtRest ==
    /\ i = 0
    /\ temperature_base = <<>> /\ humidity_base = <<>> /\ moisture_base = <<>>
    /\ temperature_noise = <<>> /\ humidity_noise = <<>> /\ moisture_noise = <<>>
    /\ temperature_updated = <<>> /\ humidity_updated = <<>> /\ moisture_updated = <<>>
    /\ dehumidifier_action = <<>> /\ ventilation_action = <<>> /\ heating_action = <<>>
    /\ branch = <<>>

driverVars == <<i, series, updated, actions, branch>>

\* Temperatures between the limits 5 and 25, some closer to each other than decay_rate.
TemperatureValues == {500, 1000, 1497, 1500, 1503, 1505, 1510, 2000, 2500}

\* Humidity and moisture values from the lower limit 0 up to 100.
HumidityValues == {0, 1, 1000, 2500, 2510, 6000, 8000, 10000}

\* Actuator levels of [-10, 10].
ActionLevels == {-1000, -333, -1, 0, 1, 250, 1000}

\* (min_limit, decay_rate, action_factor) of update_humidity and update_moisture:
\* the two configured triples of Main.py, a full decay and a stronger action.
HumidityParameters ==
    { <<humidity_min_limit, humidity_decay_rate, humidity_action_factor>>,
      <<moisture_min_limit, moisture_decay_rate, moisture_action_factor>>,
      <<0, Scale, 3>>, <<0, 20, 50>> }

\* The two arrays of a call at time_stamp 1: base[1] is the current base value and
\* modified[0] the previous value; modified[1] still holds the copy of base[1].
TwoSamples(first, second) == [t \in 0..1 |-> IF t = 0 THEN first ELSE second]

TemperatureCall ==
    /\ pc = "idle"
    /\ \E prev \in TemperatureValues, base \in TemperatureValues, h \in ActionLevels :
          call' = [fn |-> "update_temperature", prev |-> prev, base |-> base, h |-> h,
                   result |-> update_temperature(
                       1, TwoSamples(prev, base), TwoSamples(prev, base), h,
                       temperature_min_limit, temperature_max_limit,
                       temperature_decay_rate, temperature_action_factor)]
    /\ pc' = "returned"
    /\ UNCHANGED driverVars

HumidityCall ==
    /\ pc = "idle"
    /\ \E prev \in HumidityValues, base \in HumidityValues,
          d \in ActionLevels, v \in ActionLevels, p \in HumidityParameters :
          call' = [fn |-> "update_humidity", prev |-> prev, base |-> base, d |-> d, v |-> v,
                   min_limit |-> p[1], decay_rate |-> p[2], action_factor |-> p[3],
                   result |-> update_humidity(
                       1, TwoSamples(prev, base), TwoSamples(prev, base), d, v,
                       p[1], p[2], p[3]),
                   moisture |-> update_moisture(
                       1, TwoSamples(prev, base), TwoSamples(prev, base), v,
                       p[1], p[2], p[3])]
    /\ pc' = "returned"
    /\ UNCHANGED driverVars

InitCall == pc = "idle" /\ call = NoCall /\ DriverAtRest

NextPlant == TemperatureCall \/ HumidityCall

SpecPlant == InitCall /\ [][NextPlant]_vars

-----------------------------------------------------------------------------
(* Single calls of smooth_data *)

\* Length of the smoothed array: the window of 5 saturates and slides within it.
SmoothLen == 7

\* Noisy readings, in hundredths.
SmoothSamples == {0, 100, 700}

SmoothCall ==
    /\ pc = "idle"
    /\ \E data \in [0..SmoothLen - 1 -> SmoothSamples], t \in 0..SmoothLen - 1 :
          call' = [fn |-> "smooth_data", t |-> t, data |-> data,
                   result |-> smooth_data(t, data)]
    /\ pc' = "returned"
    /\ UNCHANGED driverVars

NextSmooth == SmoothCall

SpecSmooth == InitCall /\ [][NextSmooth]_vars

\* sum of f[k] for k in the set S
RECURSIVE SumOver(_, _)
SumOver(f, S) == IF S = {} THEN 0 ELSE LET k == CHOOSE x \in S : TRUE IN f[k] + SumOver(f, S \ {k})

\* C3: smooth_data(t, data) is the mean of the min(t+1, 5) samples
\* data[max(0, t-4)] .. data[t] (the fixed-point value nearest to it): 1, 2, 3, 4
\* samples at t = 0, 1, 2, 3 and 5 samples from t = 4 on, none of them later than t.
C3_TrailingMovingAverage ==
    call.fn = "smooth_data" =>
        LET t      == call.t
            window == {k \in 0..SmoothLen - 1 : k >= t - 4 /\ k <= t}
            n      == IF t < 4 THEN t + 1 ELSE 5
        IN  /\ Cardinality(window) = n
            /\ 2 * Abs(n * call.result - SumOver(call.data, window)) <= n

\* The window has slid: a sample before it and a sample after t are not 0, the
\* five samples in it are, and so is their mean.
C3_Witness ==
    /\ call.fn = "smooth_data" /\ call.t = 5
    /\ call.data[0] = 700 /\ call.data[6] = 700
    /\ \A k \in 1..5 : call.data[k] = 0
    /\ call.result = 0

-----------------------------------------------------------------------------
(* Claims about the plant model, checked under SpecPlant *)

Between(x, a, b) == (a <= x /\ x <= b) \/ (b <= x /\ x <= a)

\* C4: the plant update is monotonic toward the acting limit.  With the configured
\* limits, a heating action in (0, 10] never returns a temperature below the previous
\* one; a dehumidifier/ventilation pair whose sum is > 0 never returns a humidity above
\* the previous one; a ventilation action in (0, 10] never returns a moisture above the
\* previous one.  The previous values are those a run can hold: temperatures within
\* the limits [5, 25], humidity and moisture from min_limit 0 up.
C4_MonotonicTowardLimit ==
    /\ (call.fn = "update_temperature" /\ call.h > 0) => call.result >= call.prev
    /\ (call.fn = "update_humidity" /\ call.d + call.v > 0) => call.result <= call.prev
    /\ (call.fn = "update_humidity" /\ call.v > 0) => call.moisture <= call.prev

\* Heating, dehumidifying and ventilating calls that did move the value.
C4_Witness ==
    \/ call.fn = "update_temperature" /\ call.h > 0 /\ call.result > call.prev
    \/ /\ call.fn = "update_humidity" /\ call.d < 0 /\ call.d + call.v > 0
       /\ call.result < call.prev /\ call.moisture < call.prev

\* C5: with a heating action of exactly 0 the temperature moves by decay_rate toward
\* base[t] and stops at base[t]: the result lies between the previous temperature and
\* base[t], and its distance to base[t] is max(0, |prev - base[t]| - decay_rate).
C5_DecayWithoutOvershoot ==
    (call.fn = "update_temperature" /\ call.h = 0) =>
        /\ Between(call.result, call.prev, call.base)
        /\ Abs(call.result - call.base)
             = Max(0, Abs(call.prev - call.base) - temperature_decay_rate)

\* A decay that is cut short at base[t], from above.
C5_Witness ==
    /\ call.fn = "update_temperature" /\ call.h = 0
    /\ call.prev > call.base /\ call.prev - call.base < temperature_decay_rate
    /\ call.result = call.base

\* C6: the humidity branch is chosen by the sign of dehumidifier + ventilation.  A
\* sum > 0 gives prev - (prev - min_limit) * (sum / 10) * action_factor; a sum <= 0
\* gives prev + (base[t] - prev) * decay_rate, which lies between prev and base[t];
\* no branch takes the humidity above both prev and base[t].  (The results are the
\* fixed-point values nearest to the exact ones.)
C6_HumidityLaw ==
    call.fn = "update_humidity" =>
        LET sum == call.d + call.v
        IN  /\ sum > 0 =>
                2 * Abs(IntensityUnit * Scale * (call.prev - call.result)
                        - (call.prev - call.min_limit) * sum * call.action_factor)
                  <= IntensityUnit * Scale
            /\ sum <= 0 =>
                /\ 2 * Abs(Scale * (call.result - call.prev)
                           - (call.base - call.prev) * call.decay_rate) <= Scale
                /\ Between(call.result, call.prev, call.base)
            /\ call.result <= Max(call.prev, call.base)

\* A positive dehumidifier action cancelled by a negative ventilation action: decay.
C6_Witness ==
    /\ call.fn = "update_humidity" /\ call.d > 0 /\ call.d + call.v <= 0
    /\ call.base > call.prev /\ call.result > call.prev

\* C7: update_moisture returns what update_humidity returns for the same arguments
\* and a dehumidifier action of 0.
C7_MoistureIsHumidityByVentilation ==
    (call.fn = "update_humidity" /\ call.d = 0) => call.moisture = call.result

\* The decay branch of the shared law, which the ventilation alone selects.
C7_Witness ==
    /\ call.fn = "update_humidity" /\ call.d = 0 /\ call.v <= 0
    /\ call.moisture # call.prev /\ call.moisture = call.result

-----------------------------------------------------------------------------
(* Single calls of the controllers *)

ReadingsT == {-200, 0, 900, 1500, 1850, 1900, 2000, 2050, 2150, 2500, 3000, 3300}

ReadingsH == {-500, 0, 3000, 4999, 5000, 5750, 6500, 7000, 7250, 9000, 10000, 10500}

ReadingsM == {-300, 0, 500, 1250, 1500, 1501, 2500, 10000, 12000}

ControllerCall ==
    /\ pc = "idle"
    /\ \E temperature \in ReadingsT, humidity \in ReadingsH, moisture \in ReadingsM :
          LET sensdata == [k \in 0..2 |-> CASE k = 0 -> temperature [] k = 1 -> humidity [] OTHER -> moisture]
          IN  call' = [fn |-> "controllers", sensdata |-> sensdata,
                       dehumidifier |-> dehumidifier_controller(sensdata),
                       ventilation |-> ventilation_controller(sensdata),
                       heating |-> heating_controller(sensdata)]
    /\ pc' = "returned"
    /\ UNCHANGED driverVars

\* sensdata with the given readings.
Sensdata(temperature, humidity, moisture) ==
    [k \in 0..2 |-> CASE k = 0 -> temperature [] k = 1 -> humidity [] OTHER -> moisture]

\* Every humidity from below the universe [0, 100] to above it, in hundredths.
HumidityReadings == -100..10100

\* Every temperature from below the universe [0, 30] to above it, in hundredths.
TemperatureReadings == -100..3100

\* Humidity and moisture at every whole value of [0, 100], and next to the ends of
\* the membership triangles.
PairReadingsH == { 100 * n : n \in 0..100 } \cup {-100, 5499, 5501, 5999, 6001, 6999, 7001, 7499, 7501, 10100}

PairReadingsM == { 100 * n : n \in 0..100 } \cup {-100, 999, 1001, 1499, 1501, 1999, 2001, 10100}

\* One call of dehumidifier_controller; the firing strengths are those of rule1,
\* rule2, rule3.
DehumidifierCall ==
    /\ pc = "idle"
    /\ \E humidity \in HumidityReadings :
          \E sensdata \in {Sensdata(2000, humidity, 2500)} :
          call' = [fn |-> "dehumidifier_controller", sensdata |-> sensdata,
                   strength |-> firing_strengths(DehumidifierSystem, <<sensdata[1]>>, 3),
                   result |-> dehumidifier_controller(sensdata)]
    /\ pc' = "returned"
    /\ UNCHANGED driverVars

\* One call of ventilation_controller; the firing strengths are in the order of the
\* rules of VentilationSystem.
VentilationCall ==
    /\ pc = "idle"
    /\ \E humidity \in PairReadingsH, moisture \in PairReadingsM :
          \E sensdata \in {Sensdata(2000, humidity, moisture)} :
          call' = [fn |-> "ventilation_controller", sensdata |-> sensdata,
                   strength |-> firing_strengths(VentilationSystem, <<sensdata[1], sensdata[2]>>, 9),
                   result |-> ventilation_controller(sensdata)]
    /\ pc' = "returned"
    /\ UNCHANGED driverVars

\* One call of heating_controller; the firing strengths are those of rule1, rule2,
\* rule3.
HeatingCall ==
    /\ pc = "idle"
    /\ \E temperature \in TemperatureReadings :
          \E sensdata \in {Sensdata(temperature, 6000, 2500)} :
          call' = [fn |-> "heating_controller", sensdata |-> sensdata,
                   strength |-> firing_strengths(HeatingSystem, <<sensdata[0]>>, 3),
                   result |-> heating_controller(sensdata)]
    /\ pc' = "returned"
    /\ UNCHANGED driverVars

NextControllers == ControllerCall \/ DehumidifierCall \/ VentilationCall \/ HeatingCall

SpecControllers == InitCall /\ [][NextControllers]_vars

-----------------------------------------------------------------------------
(* Claims about a run of main(), checked under Spec *)

\* The plant update of step t has been made.
Updated(t) == t < i \/ (t = i /\ pc # "plant")

\* C1: one-step lag.  For every step t > 0 whose plant update is made, updated[t] of
\* temperature, humidity and moisture is what the plant model gives from
\* updated[t-1], base[t] and the actions recorded at t-1; it is made while the actions
\* of step t are still to be computed, and it stays as it is once they are.
C1_OneStepLag ==
    \A t \in Steps :
        (t > 0 /\ Updated(t)) =>
            /\ temperature_updated[t] = update_temperature(
                   t, temperature_base, temperature_updated, heating_action[t - 1],
                   temperature_min_limit, temperature_max_limit,
                   temperature_decay_rate, temperature_action_factor)
            /\ humidity_updated[t] = update_humidity(
                   t, humidity_base, humidity_updated,
                   dehumidifier_action[t - 1], ventilation_action[t - 1],
                   humidity_min_limit, humidity_decay_rate, humidity_action_factor)
            /\ moisture_updated[t] = update_moisture(
                   t, moisture_base, moisture_updated, ventilation_action[t - 1],
                   moisture_min_limit, moisture_decay_rate, moisture_action_factor)
            /\ (t = i /\ pc = "control") => branch[t] = "pending"
            /\ branch[t] # "pending" => Updated(t)

\* The actions of step t are recorded, not zero, and the values they will only move
\* at step t + 1 have been moved by the actions of t - 1.
C1_Witness ==
    /\ i >= 2 /\ i < NumSteps /\ pc = "plant"
    /\ heating_action[i - 1] # 0 /\ ventilation_action[i - 1] > 0
    /\ heating_action[i - 1] # heating_action[i - 2]
    /\ temperature_updated[i - 1] # temperature_updated[i - 2]
    /\ humidity_updated[i - 1] < humidity_updated[i - 2]
    /\ moisture_updated[i - 1] < moisture_updated[i - 2]

\* The actions of step t are recorded.
Recorded(t) == branch[t] # "pending"

\* C2: every recorded entry of the three action series lies in [-10, 10], whatever
\* the smoothed readings given to the controllers are.
C2_ActionsInRange ==
    \A t \in Steps :
        /\ -10 * Scale <= dehumidifier_action[t] /\ dehumidifier_action[t] <= 10 * Scale
        /\ -10 * Scale <= ventilation_action[t] /\ ventilation_action[t] <= 10 * Scale
        /\ -10 * Scale <= heating_action[t] /\ heating_action[t] <= 10 * Scale

\* Actions recorded from a humidity reading above the universe [0, 100], and a step
\* that cools while it neither dehumidifies nor ventilates at full level.
C2_Witness ==
    \E t \in Steps, u \in Steps :
        /\ Recorded(t) /\ Recorded(u)
        /\ sensdata_at(t)[1] > 10000 /\ dehumidifier_action[t] > 0
        /\ heating_action[u] < 0 /\ ventilation_action[u] # 0

\* C9 as amended: the update interval is the literal 1.  At every step whose actions
\* are recorded the three controllers were evaluated on the smoothed readings of the
\* step and their outputs are the actions of the step; no step copies the actions of
\* the step before.
C9_EveryStepRecomputes ==
    \A t \in Steps :
        Recorded(t) =>
            /\ branch[t] = "computed"
            /\ dehumidifier_action[t] = dehumidifier_controller(sensdata_at(t)).value
            /\ ventilation_action[t] = ventilation_controller(sensdata_at(t)).value
            /\ heating_action[t] = heating_controller(sensdata_at(t)).value

\* A finished loop whose last two steps recorded different actions.
C9_Witness ==
    /\ pc = "report"
    /\ \A t \in Steps : branch[t] = "computed"
    /\ dehumidifier_action[NumSteps - 1] # dehumidifier_action[NumSteps - 2]
    /\ heating_action[NumSteps - 1] # heating_action[NumSteps - 2]

\* C9 as claimed: the hold-over branch is reachable, so that a finished loop has
\* copied the actions forward at some step t > 0.
C9_HoldOverBranchTaken ==
    pc = "report" => \E t \in Steps : t > 0 /\ branch[t] = "held"

\* main() has ended, normally or by an exception.
Ended == pc \in {"done", "ValueError", "IndexError"}

\* C11: rise-time analysis is non-fatal.  A run whose updated temperature, humidity
\* or moisture never enters its comfort band still ends normally: main() does not end
\* in the IndexError of the first element of an empty selection.
C11_RiseTimeNonFatal ==
    (Ended /\ (rise_temperature = {} \/ rise_humidity = {} \/ rise_moisture = {}))
        => pc = "done"

\* The loop has ended and the series are with the plots and the analysis.
HandedOver == pc \in {"report", "done", "IndexError"}

\* C15: the driver visits the time steps 0, 1, ..., N-1 in increasing order, each
\* once, and the loop always ends after step N-1.  The loop variable only ever goes
\* from t to t + 1, at the end of the step that records the actions of t; the loop
\* ends in every run; and when the series are handed to the plots and the analysis,
\* all N steps are made: every entry of the three action series is recorded, every
\* entry of the three updated series is made, and the six series have length N.
C15_VisitsEveryStepOnce ==
    /\ [][ i' # i => /\ i' = i + 1 /\ in_range(i)
                     /\ branch[i] = "pending" /\ branch'[i] # "pending"
                     /\ \A t \in Steps : t # i => branch'[t] = branch[t] ]_vars
    /\ [](HandedOver =>
            /\ i = NumSteps
            /\ \A t \in Steps : Recorded(t) /\ Updated(t)
            /\ \A a \in {temperature_updated, humidity_updated, moisture_updated,
                         dehumidifier_action, ventilation_action, heating_action} :
                   DOMAIN a = 0..NumSteps - 1)
    /\ [](~HandedOver => \A t \in Steps : (t < i <=> Recorded(t)))
    /\ <>HandedOver

\* The loop has just ended: the last step is made and the report has not begun.
C15_Witness ==
    /\ pc = "report" /\ i = NumSteps
    /\ \A t \in Steps : branch[t] = "computed"
    /\ ventilation_action[NumSteps - 1] # 0
    /\ moisture_updated[NumSteps - 1] < moisture_updated[0]

\* The values of step t in a run without sensors, from the base series and the
\* action series alone: step 0 is the base, step t applies the update laws to the
\* values of step t - 1, base[t] and the actions at t - 1.
RECURSIVE NoiseFree(_)
NoiseFree(t) ==
    IF t = 0
    THEN [temperature |-> temperature_base[0], humidity |-> humidity_base[0],
          moisture |-> moisture_base[0]]
    ELSE The({
         [ temperature |-> update_temperature(
               1, TwoSamples(temperature_base[t - 1], temperature_base[t]),
               TwoSamples(prev.temperature, temperature_base[t]), heating_action[t - 1],
               temperature_min_limit, temperature_max_limit,
               temperature_decay_rate, temperature_action_factor),
           humidity    |-> update_humidity(
               1, TwoSamples(humidity_base[t - 1], humidity_base[t]),
               TwoSamples(prev.humidity, humidity_base[t]),
               dehumidifier_action[t - 1], ventilation_action[t - 1],
               humidity_min_limit, humidity_decay_rate, humidity_action_factor),
           moisture    |-> update_moisture(
               1, TwoSamples(moisture_base[t - 1], moisture_base[t]),
               TwoSamples(prev.moisture, moisture_base[t]), ventilation_action[t - 1],
               moisture_min_limit, moisture_decay_rate, moisture_action_factor) ]
         : prev \in {NoiseFree(t - 1)} })

\* C16: the true-state series is noise-free.  The rest of the loop body, which adds
\* the noise, smooths and records the actions, leaves the three updated series as they
\* are, and the plant update of step t writes entry t only; every updated[t] made is
\* the value of the run without sensors from the bases and the recorded actions, in
\* which no noise sample appears: two runs with the same actions and different noise
\* have the same updated series.
C16_TrueStateNoiseFree ==
    /\ [][ /\ pc = "control" => UNCHANGED updated
           /\ pc = "plant" =>
                 \A t \in Steps : t # i =>
                     /\ temperature_updated'[t] = temperature_updated[t]
                     /\ humidity_updated'[t] = humidity_updated[t]
                     /\ moisture_updated'[t] = moisture_updated[t] ]_vars
    /\ [](\A t \in Steps :
             Updated(t) =>
                 /\ temperature_updated[t] = NoiseFree(t).temperature
                 /\ humidity_updated[t] = NoiseFree(t).humidity
                 /\ moisture_updated[t] = NoiseFree(t).moisture)

\* Readings with noise at every step of a finished loop, a spike of the humidity
\* reading among them, and true values that the actions have moved.
C16_Witness ==
    /\ pc = "report"
    /\ \A t \in Steps : temperature_noise[t] # 0 /\ moisture_noise[t] # 0
    /\ humidity_noise[1] = 2500
    /\ temperature_updated[NumSteps - 1] # temperature_base[NumSteps - 1]
    /\ humidity_updated[NumSteps - 1] < humidity_base[NumSteps - 1]
    /\ moisture_updated[NumSteps - 1] < moisture_base[NumSteps - 1]

-----------------------------------------------------------------------------
(* Claims about runs with pinned actuators, checked under SpecPinned *)

\* C12: with heating_action pinned to 0 at every step the updated temperature follows
\* the base signal.  It starts at base[0], the base signal changes by less than
\* decay_rate per step, and at every step made so far
\* |updated[t] - base[t]| <= decay_rate: the tolerance holds from the first step on
\* and keeps holding to the end of the run.
C12_ConvergesToBase ==
    heating_action = zeros_like =>
        \A t \in Steps :
            Updated(t) =>
                Abs(temperature_updated[t] - temperature_base[t]) <= temperature_decay_rate

\* A finished run with no heating whose base signal has moved at every step, and
\* whose temperature has moved with it.
C12_Witness ==
    /\ pc = "report" /\ heating_action = zeros_like
    /\ \A t \in Steps : t > 0 => temperature_base[t] < temperature_base[t - 1]
    /\ \A t \in Steps : t > 0 => temperature_updated[t] < temperature_updated[t - 1]
    /\ temperature_updated[NumSteps - 1] < temperature_base[0] - temperature_decay_rate

\* The largest of series[0], ..., series[t].
LargestUpTo(a, t) == MaxOf({ a[k] : k \in 0..t })

\* C17: bounds of the plant state.  With a base temperature inside
\* [temperature_min_limit, temperature_max_limit] = [5, 25] and base humidity and
\* moisture >= min_limit = 0, whatever the actions in [-10, 10] are, every
\* temperature_updated[t] is in [5, 25], every humidity_updated[t] and
\* moisture_updated[t] is >= 0, and neither is above the largest base value up to t.
C17_StateBounds ==
    ( /\ \A t \in Steps : /\ temperature_min_limit <= temperature_base[t]
                          /\ temperature_base[t] <= temperature_max_limit
                          /\ humidity_base[t] >= humidity_min_limit
                          /\ moisture_base[t] >= moisture_min_limit
      /\ \A t \in Steps : \A a \in {dehumidifier_action[t], ventilation_action[t], heating_action[t]} :
             -10 * Scale <= a /\ a <= 10 * Scale )
    => \A t \in Steps :
           Updated(t) =>
               /\ temperature_min_limit <= temperature_updated[t]
               /\ temperature_updated[t] <= temperature_max_limit
               /\ humidity_updated[t] >= humidity_min_limit
               /\ moisture_updated[t] >= moisture_min_limit
               /\ humidity_updated[t] <= LargestUpTo(humidity_base, t)
               /\ moisture_updated[t] <= LargestUpTo(moisture_base, t)

\* A finished run with every actuator at its full level throughout: the temperature
\* has left the base toward max_limit, humidity and moisture toward min_limit.
C17_Witness ==
    /\ pc = "report" /\ call = [fn |-> "pinned"]
    /\ \A t \in Steps : /\ heating_action[t] = 10 * Scale
                        /\ dehumidifier_action[t] = 10 * Scale
                        /\ ventilation_action[t] = 10 * Scale
    /\ temperature_updated[NumSteps - 1] > temperature_base[NumSteps - 1] + Scale
    /\ humidity_updated[NumSteps - 1] < humidity_base[NumSteps - 1] - 10 * Scale
    /\ moisture_updated[NumSteps - 1] < moisture_base[NumSteps - 1] - Scale

-----------------------------------------------------------------------------
(* Claims about single calls of the controllers, checked under SpecControllers *)

\* C13: for a humidity reading of 90 the only rule of the dehumidifier controller that
\* fires is rule1, high -> high (medium and low have degree 0 at 90), and the action,
\* the centroid over the grid -10..10, lies in the upper third of [-10, 10]:
\* action >= 10 - 20/3.
C13_HighHumidityHighAction ==
    (call.fn = "dehumidifier_controller" /\ call.sensdata[1] = 90 * Scale) =>
        /\ call.strength[1] > 0 /\ call.strength[2] = 0 /\ call.strength[3] = 0
        /\ call.result.defined
        /\ 3 * call.result.value >= 3 * 10 * Scale - 20 * Scale

\* The call at 90: rule1 fires at two thirds and the action is between 7 and 8.
C13_Witness ==
    /\ call.fn = "dehumidifier_controller" /\ call.sensdata[1] = 90 * Scale
    /\ call.strength[1] = 6667
    /\ call.result.value > 7 * Scale /\ call.result.value < 8 * Scale

-----------------------------------------------------------------------------
(* Claims about runs with the work of a step in any order, checked under
   SpecAnyOrder *)

\* The plant update of the variable at step t is done.
VariableDone(variable, t) == t < i \/ (t = i /\ (pc # "plant" \/ variable \in call.done))

\* The controller was evaluated at step t.
ControllerEvaluated(controller, t) ==
    t < i \/ (t = i /\ pc = "control" /\ controller \in call.done)

\* C14: within a step the result does not depend on the order of independent work.
\* In whichever of the 6 orders the plant updates of step t run, each updated[t] is
\* what the update law gives from updated[t-1], base[t] and the actions at t-1; in
\* whichever of the 6 orders the controllers run, each action of t is the controller's
\* output on the smoothed readings of t: the values main() computes in its own order.
\* The stages are serialized: no controller of step t has run before the three
\* updates of t are done, and nothing of a later step is written.
C14_OrderIndependent ==
    \A t \in Steps :
        /\ (t > 0 /\ VariableDone("temperature", t)) =>
               temperature_updated[t] = update_temperature(
                   t, temperature_base, temperature_updated, heating_action[t - 1],
                   temperature_min_limit, temperature_max_limit,
                   temperature_decay_rate, temperature_action_factor)
        /\ (t > 0 /\ VariableDone("humidity", t)) =>
               humidity_updated[t] = update_humidity(
                   t, humidity_base, humidity_updated,
                   dehumidifier_action[t - 1], ventilation_action[t - 1],
                   humidity_min_limit, humidity_decay_rate, humidity_action_factor)
        /\ (t > 0 /\ VariableDone("moisture", t)) =>
               moisture_updated[t] = update_moisture(
                   t, moisture_base, moisture_updated, ventilation_action[t - 1],
                   moisture_min_limit, moisture_decay_rate, moisture_action_factor)
        /\ ControllerEvaluated("dehumidifier", t) =>
               dehumidifier_action[t] = dehumidifier_controller(sensdata_at(t)).value
        /\ ControllerEvaluated("ventilation", t) =>
               ventilation_action[t] = ventilation_controller(sensdata_at(t)).value
        /\ ControllerEvaluated("heating", t) =>
               heating_action[t] = heating_controller(sensdata_at(t)).value
        /\ (t > i \/ (t = i /\ pc = "plant")) =>
               /\ dehumidifier_action[t] = 0 /\ ventilation_action[t] = 0
               /\ heating_action[t] = 0 /\ branch[t] = "pending"
        /\ t > i =>
               /\ temperature_updated[t] = temperature_base[t]
               /\ humidity_updated[t] = humidity_base[t]
               /\ moisture_updated[t] = moisture_base[t]
        /\ t < i => branch[t] = "computed"

\* A step whose heating and ventilation controllers ran before its dehumidifier
\* controller, the reverse of the order of main(), on values that have moved.
C14_Witness ==
    /\ pc = "control" /\ i > 0 /\ call = Stage({"heating", "ventilation"})
    /\ heating_action[i] # 0 /\ ventilation_action[i] # 0 /\ dehumidifier_action[i] = 0
    /\ dehumidifier_action[i - 1] # 0
    /\ humidity_updated[i] # humidity_updated[i - 1]
    /\ moisture_updated[i] # moisture_updated[i - 1]

\* Some rule fired: a firing strength is above 0.
SomeRuleFired(strength) == \E r \in 1..Len(strength) : strength[r] > 0

\* The consequent set of every rule of the system that fired is above 0 at some
\* point of the output grid.
FiredSetsOnGrid(system, strength) ==
    \A r \in 1..Len(strength) :
        strength[r] > 0 =>
            \E x \in system.consequent.universe :
                trimf(x * Scale, system.consequent.terms[system.rules[r].then]) > 0

\* The reading k of sensdata is inside [lo, hi], in whole units.
InUniverse(sensdata, k, lo, hi) == lo * Scale <= sensdata[k] /\ sensdata[k] <= hi * Scale

\* C18: the rule bases cover their input universes.  For every humidity in [0, 100]
\* one of the 3 dehumidifier rules fires; for every temperature in [0, 30] one of the
\* 3 heating rules fires; for every humidity and moisture in [0, 100] one of the 9
\* ventilation rules fires, and the 9 rules are one per pair of labels.  The
\* consequent set of each rule that fired is above 0 at some point of the grid
\* -10..10, so the output of the controller is defined: the centroid's denominator
\* is not zero.
C18_RuleBasesCover ==
    /\ (call.fn = "dehumidifier_controller" /\ InUniverse(call.sensdata, 1, 0, 100)) =>
           /\ Len(call.strength) = 3 /\ SomeRuleFired(call.strength)
           /\ FiredSetsOnGrid(DehumidifierSystem, call.strength)
           /\ call.result.defined
    /\ (call.fn = "heating_controller" /\ InUniverse(call.sensdata, 0, 0, 30)) =>
           /\ Len(call.strength) = 3 /\ SomeRuleFired(call.strength)
           /\ FiredSetsOnGrid(HeatingSystem, call.strength)
           /\ call.result.defined
    /\ (/\ call.fn = "ventilation_controller"
        /\ InUniverse(call.sensdata, 1, 0, 100) /\ InUniverse(call.sensdata, 2, 0, 100)) =>
           /\ Len(call.strength) = 9 /\ SomeRuleFired(call.strength)
           /\ { VentilationSystem.rules[r].if : r \in 1..9 }
                = { <<h, m>> : h \in {"low", "medium", "high"}, m \in {"low", "medium", "high"} }
           /\ FiredSetsOnGrid(VentilationSystem, call.strength)
           /\ call.result.defined

\* Readings where the sets meet: a temperature of 19, the end of "cold", where only
\* "medium" is above 0; a moisture of 15, the end of "low" and the start of "high",
\* with a humidity of 100, where only the rule high and medium fires.
C18_Witness ==
    \/ /\ call.fn = "heating_controller" /\ call.sensdata[0] = 19 * Scale
       /\ call.strength[3] = 0 /\ call.strength[2] = Degree \div 2 /\ call.strength[1] = 0
       /\ call.result.defined
    \/ /\ call.fn = "ventilation_controller"
       /\ call.sensdata[1] = 100 * Scale /\ call.sensdata[2] = 15 * Scale
       /\ call.strength[2] = Degree
       /\ \A r \in 1..9 : r # 2 => call.strength[r] = 0
       /\ call.result.defined

====
